---- MODULE Spec2Model ----
(***************************************************************************)
(* Differentially Private Health Tokens (DPHT).                            *)
(*                                                                         *)
(* Generate_QR_Token.py: the randomised-response mechanism output_token,   *)
(* the token record TokenData (length-prefixed value plus signature        *)
(* block), generate_signed_token and the bias-correcting simulation        *)
(* simulate_DPHT.                                                          *)
(* Verify_QR_Token.py: the parser QR_data and verify_signature.            *)
(*                                                                         *)
(* Probabilities are exact rationals <<n, d>> with d > 0, kept in lowest   *)
(* terms; e^epsilon is a rational parameter.                               *)
(***************************************************************************)
EXTENDS Integers, Sequences, FiniteSets, TLC

(***************************************************************************)
(* Bounds of the model.                                                    *)
(***************************************************************************)
MaxK == 4
MaxExpNum == 4
MaxExpDen == 2
PriorDen == 2
MaxUsers == 2
MaxTextLen == 2
MaxSigLen == 2
MaxTamper == 3

(***************************************************************************)
(* Exact rational arithmetic.                                              *)
(***************************************************************************)
Abs(n) == IF n < 0 THEN -n ELSE n

RECURSIVE GCD(_, _)
GCD(a, b) == IF b = 0 THEN a ELSE GCD(b, a % b)

Rat(n, d) ==
    LET g == GCD(Abs(n), Abs(d))
        s == IF d < 0 THEN -1 ELSE 1
    IN  <<(s * n) \div g, (s * d) \div g>>

RInt(n) == <<n, 1>>
RAdd(a, b) == Rat(a[1] * b[2] + b[1] * a[2], a[2] * b[2])
RSub(a, b) == Rat(a[1] * b[2] - b[1] * a[2], a[2] * b[2])
RMul(a, b) == Rat(a[1] * b[1], a[2] * b[2])
RDiv(a, b) == Rat(a[1] * b[2], a[2] * b[1])
RLeq(a, b) == a[1] * b[2] <= b[1] * a[2]
RLt(a, b) == a[1] * b[2] < b[1] * a[2]
RIsZero(a) == a[1] = 0
RAbs(a) == <<Abs(a[1]), a[2]>>

RZero == RInt(0)
ROne == RInt(1)

(***************************************************************************)
(* Inputs.                                                                 *)
(***************************************************************************)
\* Python values: the bool True/False and the integers 0/1.  A bool equals
\* the integer of the same value but prints differently.
PyBool(v) == [ty |-> "bool", v |-> v]
PyInt(v) == [ty |-> "int", v |-> v]

\* "Test result is 0 or 1."
TestResults == {0, 1}

\* The values callers pass as test_result: generate_signed_token is given the
\* bool True by the entry point (test_result = True), simulate_DPHT passes
\* integers.
PyTestResults == {PyBool(1)} \cup {PyInt(v) : v \in TestResults}

Ks == 0 .. MaxK
Exps == {Rat(n, d) : n \in 1 .. MaxExpNum, d \in 1 .. MaxExpDen}
Priors == {Rat(i, PriorDen) : i \in 0 .. PriorDen}


(***************************************************************************)
(* Text: a Python str is a sequence of Unicode code points.                *)
(***************************************************************************)
\* str(np.array(token)): a 0-d array prints as its element does, so a bool
\* prints as True/False and an integer as its decimal digit.
PyStr(x) ==
    IF x.ty = "bool"
    THEN (IF x.v = 1 THEN <<84, 114, 117, 101>> ELSE <<70, 97, 108, 115, 101>>)
    ELSE (IF x.v = 1 THEN <<49>> ELSE <<48>>)

(***************************************************************************)
(* The randomised-response mechanism, output_token.                        *)
(***************************************************************************)
\* output_correct = (exp(epsilon) - 1) / (exp(epsilon) + k - 1)
output_correct_NoMinusOne(k, E) == RDiv(E, RAdd(E, RInt(k - 1)))
output_correct(k, E) == RDiv(RSub(E, ROne), RAdd(E, RInt(k - 1)))

\* p = [1 - output_correct, output_correct] over [0, 1]
Coin0P(k, E) ==
    [c \in {0, 1} |-> IF c = 0 THEN RSub(ROne, output_correct(k, E))
                               ELSE output_correct(k, E)]

\* p = [1-1/k, 1/k] over [0, 1]
Coin1P_Swapped(k) ==
    [c \in {0, 1} |-> IF c = 0 THEN RDiv(ROne, RInt(k))
                               ELSE RSub(ROne, RDiv(ROne, RInt(k)))]
Coin1P(k) ==
    [c \in {0, 1} |-> IF c = 0 THEN RSub(ROne, RDiv(ROne, RInt(k)))
                               ELSE RDiv(ROne, RInt(k))]

\* np.random.choice rejects a probability vector with a negative entry
\* (the entries here sum to one by construction).
ChoiceValid(p) == \A c \in DOMAIN p : RLeq(RZero, p[c])
ChoiceSupport(p) == {c \in DOMAIN p : RLt(RZero, p[c])}

\* P(output_token(a, epsilon, k) = o): the first coin keeps a with
\* probability output_correct, otherwise the second coin decides.
OutputProb(a, o, k, E) ==
    RAdd(IF a = o THEN Coin0P(k, E)[1] ELSE RZero,
         RMul(Coin0P(k, E)[0], IF o \in {0, 1} THEN Coin1P(k)[o] ELSE RZero))

\* the classes output_token can return for some true class
Producible(k, E) ==
    {o \in 0 .. MaxK : \E a \in TestResults : RLt(RZero, OutputProb(a, o, k, E))}

\* P(token is counted by np.count_nonzero | true status a)
NonZeroProb(a, k, E) == OutputProb(a, 1, k, E)

(***************************************************************************)
(* The estimator of simulate_DPHT.                                         *)
(***************************************************************************)
min_prob(k, E) == RDiv(ROne, RAdd(E, RInt(k - 1)))
max_prob_NoScale(k, E) == RSub(ROne, min_prob(k, E))
max_prob(k, E) == RMul(E, min_prob(k, E))
e_x_of(x, k, E) == RDiv(RSub(x, min_prob(k, E)), RSub(max_prob(k, E), min_prob(k, E)))

RECURSIVE count_nonzero(_)
count_nonzero(s) ==
    IF s = <<>> THEN 0
    ELSE (IF Head(s) # 0 THEN 1 ELSE 0) + count_nonzero(Tail(s))

VARIABLES
    caller,            \* "none", "generate" or "simulate": who called output_token
    mpc,               \* position in the mechanism / simulation code
    test_result,       \* output_token's test_result argument (a Python value)
    k,                 \* number of classes passed to output_token
    eeps,              \* exp(epsilon), exact
    coin0,             \* outcome of the first coin, -1 before it is flipped
    token,             \* the value output_token returns
    prob,              \* probabilities of the draws made in this call, in order
    user_token_value,  \* str(output_token(...)) of generate_signed_token
    priorP,            \* P(antibody status = 1) of the simulated population
    antibody_status,   \* simulate_DPHT: the real statuses
    tokens,            \* simulate_DPHT: the randomised tokens, as numbers
    user,              \* simulate_DPHT: loop index (1-based)
    e_x,               \* simulate_DPHT: the corrected estimate
    error              \* simulate_DPHT: |real_x - e_x|

mvars == <<caller, mpc, test_result, k, eeps, coin0, token, prob,
           user_token_value, priorP, antibody_status, tokens, user, e_x, error>>

VARIABLES
    spc,               \* position in the issue / transport / verify sequence
    user_token,        \* TokenData.user_token, the text
    cert_bytes,        \* TokenData.cert_bytes
    pkey,              \* the signing key
    cert_sign,         \* the signature made by getSignedCertificateByteArray
    signed_user_cert,  \* the signed payload
    tampered,          \* whether the payload was altered on the way
    qr_data_base64,    \* the base-85 text carried by the QR code
    raw_data,          \* QR_data.raw_data
    qr_user_token,     \* QR_data.user_token, the bytes
    raw_verify_bytes,  \* QR_data.raw_verify_bytes
    token_sign_bytes,  \* QR_data.token_sign_bytes
    verify_cert,       \* the certificate verify_signature was given
    verified           \* outcome of verify_signature: "True", "False" or "Error"

svars == <<spc, user_token, cert_bytes, pkey, cert_sign, signed_user_cert, tampered,
           qr_data_base64, raw_data, qr_user_token, raw_verify_bytes,
           token_sign_bytes, verify_cert, verified>>

vars == <<mvars, svars>>

NoValue == PyInt(-1)

MechInit ==
    /\ caller = "none"
    /\ mpc = "idle"
    /\ test_result = NoValue
    /\ k = 2
    /\ eeps = ROne
    /\ coin0 = -1
    /\ token = NoValue
    /\ prob = <<>>
    /\ user_token_value = <<>>
    /\ priorP = RZero
    /\ antibody_status = <<>>
    /\ tokens = <<>>
    /\ user = 0
    /\ e_x = RZero
    /\ error = RZero

\* generate_signed_token(test_result, epsilon): output_token is called with
\* the default k = 2.
generate_signed_token(tr, E) ==
    /\ mpc = "idle"
    /\ caller' = "generate"
    /\ test_result' = tr
    /\ k' = 2
    /\ eeps' = E
    /\ mpc' = "output_token"
    /\ UNCHANGED <<coin0, token, prob, user_token_value, priorP,
                   antibody_status, tokens, user, e_x, error>>
    /\ UNCHANGED svars

\* simulate_DPHT(nUsers, epsilon, priorP, k): draw the real statuses and
\* zero the token array.
simulate_DPHT(n, E, p, kk) ==
    /\ mpc = "idle"
    /\ caller' = "simulate"
    /\ k' = kk
    /\ eeps' = E
    /\ priorP' = p
    /\ antibody_status' \in
          [1 .. n -> ChoiceSupport([c \in {0, 1} |-> IF c = 0 THEN RSub(ROne, p) ELSE p])]
    /\ tokens' = [i \in 1 .. n |-> 0]
    /\ user' = 1
    /\ mpc' = "loop"
    /\ UNCHANGED <<test_result, coin0, token, prob, user_token_value, e_x, error>>
    /\ UNCHANGED svars

\* for user in range(nUsers): token = output_token(true_status, epsilon, k=k)
simulate_next_user ==
    /\ mpc = "loop"
    /\ user <= Len(antibody_status)
    /\ test_result' = PyInt(antibody_status[user])
    /\ coin0' = -1
    /\ token' = NoValue
    /\ prob' = <<>>
    /\ mpc' = "output_token"
    /\ UNCHANGED <<caller, k, eeps, user_token_value, priorP, antibody_status,
                   tokens, user, e_x, error>>
    /\ UNCHANGED svars

\* output_correct = ...; coin0 = np.random.choice([0,1], p = [...])
output_token_coin0 ==
    /\ mpc = "output_token"
    /\ IF RIsZero(RAdd(eeps, RInt(k - 1)))
       THEN /\ mpc' = "ZeroDivisionError"
            /\ UNCHANGED <<coin0, prob>>
       ELSE IF ~ChoiceValid(Coin0P(k, eeps))
       THEN /\ mpc' = "ValueError"
            /\ UNCHANGED <<coin0, prob>>
       ELSE \E c \in ChoiceSupport(Coin0P(k, eeps)) :
                /\ coin0' = c
                /\ prob' = <<Coin0P(k, eeps)[c]>>
                /\ mpc' = IF c = 1 THEN "keep" ELSE "coin1"
    /\ UNCHANGED <<caller, test_result, k, eeps, token, user_token_value, priorP,
                   antibody_status, tokens, user, e_x, error>>
    /\ UNCHANGED svars

\* if coin0 == 1: token = test_result
output_token_keep ==
    /\ mpc = "keep"
    /\ token' = test_result
    /\ mpc' = "return"
    /\ UNCHANGED <<caller, test_result, k, eeps, coin0, prob, user_token_value,
                   priorP, antibody_status, tokens, user, e_x, error>>
    /\ UNCHANGED svars

\* else: token = np.random.choice([0,1], p = [1-1/k,1/k])
output_token_coin1 ==
    /\ mpc = "coin1"
    /\ IF k = 0
       THEN /\ mpc' = "ZeroDivisionError"
            /\ UNCHANGED <<token, prob>>
       ELSE IF ~ChoiceValid(Coin1P(k))
       THEN /\ mpc' = "ValueError"
            /\ UNCHANGED <<token, prob>>
       ELSE \E c \in ChoiceSupport(Coin1P(k)) :
                /\ token' = PyInt(c)
                /\ prob' = Append(prob, Coin1P(k)[c])
                /\ mpc' = "return"
    /\ UNCHANGED <<caller, test_result, k, eeps, coin0, user_token_value, priorP,
                   antibody_status, tokens, user, e_x, error>>
    /\ UNCHANGED svars

\* return np.array(token), to generate_signed_token:
\* user_token = TokenData(str(user_token_value))
output_token_return_generate ==
    /\ mpc = "return"
    /\ caller = "generate"
    /\ user_token_value' = PyStr(token)
    /\ mpc' = "generated"
    /\ UNCHANGED <<caller, test_result, k, eeps, coin0, token, prob, priorP,
                   antibody_status, tokens, user, e_x, error>>
    /\ UNCHANGED svars

\* return np.array(token), to simulate_DPHT: tokens[user] = token
output_token_return_simulate ==
    /\ mpc = "return"
    /\ caller = "simulate"
    /\ tokens' = [tokens EXCEPT ![user] = token.v]
    /\ user' = user + 1
    /\ mpc' = "loop"
    /\ UNCHANGED <<caller, test_result, k, eeps, coin0, token, prob,
                   user_token_value, priorP, antibody_status, e_x, error>>
    /\ UNCHANGED svars

\* after the loop: x, min_prob, max_prob, e_x, real_x, error
simulate_estimate ==
    /\ mpc = "loop"
    /\ user > Len(antibody_status)
    /\ IF RIsZero(RSub(max_prob(k, eeps), min_prob(k, eeps)))
       THEN /\ mpc' = "ZeroDivisionError"
            /\ UNCHANGED <<e_x, error>>
       ELSE /\ e_x' = e_x_of(Rat(count_nonzero(tokens), Len(tokens)), k, eeps)
            /\ error' = RAbs(RSub(Rat(count_nonzero(antibody_status),
                                      Len(antibody_status)), e_x'))
            /\ mpc' = "simulated"
    /\ UNCHANGED <<caller, test_result, k, eeps, coin0, token, prob,
                   user_token_value, priorP, antibody_status, tokens, user>>
    /\ UNCHANGED svars

(***************************************************************************)
(* Bytes, Python slicing and integer conversion.                           *)
(***************************************************************************)
Min(a, b) == IF a < b THEN a ELSE b

\* s[a:b] on bytes: indexes past the end are clamped, never an error
Slice(s, a, b) == SubSeq(s, Min(a, Len(s)) + 1, Min(b, Len(s)))

RECURSIVE Pow256(_)
Pow256(w) == IF w = 0 THEN 1 ELSE 256 * Pow256(w - 1)

\* n.to_bytes(width, 'big'); the caller checks CanToBytes first
CanToBytes(n, width) == n >= 0 /\ n < Pow256(width)
to_bytes(n, width) == [i \in 1 .. width |-> (n \div Pow256(width - i)) % 256]

\* int.from_bytes(bs, 'big'); the empty byte string gives 0
RECURSIVE from_bytes(_)
from_bytes(bs) ==
    IF bs = <<>> THEN 0
    ELSE from_bytes(SubSeq(bs, 1, Len(bs) - 1)) * 256 + bs[Len(bs)]

\* the UTF-8 encoding of one code point
UTF8Char(cp) ==
    IF cp < 128 THEN <<cp>>
    ELSE IF cp < 2048 THEN <<192 + (cp \div 64), 128 + (cp % 64)>>
    ELSE IF cp < 65536
         THEN <<224 + (cp \div 4096), 128 + ((cp \div 64) % 64), 128 + (cp % 64)>>
         ELSE <<240 + (cp \div 262144), 128 + ((cp \div 4096) % 64),
                128 + ((cp \div 64) % 64), 128 + (cp % 64)>>

\* bytearray(text, 'utf-8')
RECURSIVE UTF8(_)
UTF8(text) ==
    IF text = <<>> THEN <<>>
    ELSE IF Len(text) = 1 THEN UTF8Char(text[1])
    ELSE LET h == Len(text) \div 2
         IN  UTF8(SubSeq(text, 1, h)) \o UTF8(SubSeq(text, h + 1, Len(text)))

(***************************************************************************)
(* base64.b85encode / base64.b85decode.  A 4-byte word is converted to 5   *)
(* base-85 digits by long division on its digit list.                      *)
(***************************************************************************)
B85Alphabet ==
    <<48, 49, 50, 51, 52, 53, 54, 55, 56, 57,
      65, 66, 67, 68, 69, 70, 71, 72, 73, 74, 75, 76, 77,
      78, 79, 80, 81, 82, 83, 84, 85, 86, 87, 88, 89, 90,
      97, 98, 99, 100, 101, 102, 103, 104, 105, 106, 107, 108, 109,
      110, 111, 112, 113, 114, 115, 116, 117, 118, 119, 120, 121, 122,
      33, 35, 36, 37, 38, 40, 41, 42, 43, 45, 59, 60, 61, 62, 63, 64,
      94, 95, 96, 123, 124, 125, 126>>

B85Index(ch) == CHOOSE i \in 1 .. Len(B85Alphabet) : B85Alphabet[i] = ch
B85Chars == {B85Alphabet[i] : i \in 1 .. Len(B85Alphabet)}

\* <<quotient digits, remainder>> of the number with digits ds in base `from`,
\* divided by `by`
RECURSIVE DivDigits(_, _, _, _)
DivDigits(ds, from, by, carry) ==
    IF ds = <<>> THEN <<<<>>, carry>>
    ELSE LET cur == carry * from + Head(ds)
             rest == DivDigits(Tail(ds), from, by, cur % by)
         IN  <<(<<cur \div by>>) \o rest[1], rest[2]>>

\* the n low digits in base `to` of the number ds (base `from`), and what is
\* left of the number above them
RECURSIVE ToBase(_, _, _, _)
ToBase(ds, from, to, n) ==
    IF n = 0 THEN <<<<>>, ds>>
    ELSE LET qr == DivDigits(ds, from, to, 0)
             hi == ToBase(qr[1], from, to, n - 1)
         IN  <<hi[1] \o <<qr[2]>>, hi[2]>>

Zeros(n) == [i \in 1 .. n |-> 0]
Fill(n, v) == [i \in 1 .. n |-> v]

RECURSIVE B85EncodeWords(_)
B85EncodeWords(b) ==
    IF b = <<>> THEN <<>>
    ELSE IF Len(b) = 4
    THEN LET digits == ToBase(b, 256, 85, 5)[1]
         IN  [i \in 1 .. 5 |-> B85Alphabet[digits[i] + 1]]
    ELSE LET h == 4 * ((Len(b) \div 4) \div 2)
         IN  B85EncodeWords(SubSeq(b, 1, h)) \o B85EncodeWords(SubSeq(b, h + 1, Len(b)))

b85encode(b) ==
    LET padding == (4 - (Len(b) % 4)) % 4
        out == B85EncodeWords(b \o Zeros(padding))
    IN  SubSeq(out, 1, Len(out) - padding)

\* a group of 5 digits that does not fit 32 bits: "base85 overflow in hunk"
B85WordOk(chunk) ==
    /\ \A i \in 1 .. 5 : chunk[i] \in B85Chars
    /\ LET r == ToBase([i \in 1 .. 5 |-> B85Index(chunk[i]) - 1], 85, 256, 4)
       IN  \A i \in 1 .. Len(r[2]) : r[2][i] = 0

B85DecodeOk(t) ==
    \A w \in 1 .. (Len(t) \div 5) : B85WordOk(SubSeq(t, 5 * w - 4, 5 * w))

RECURSIVE B85DecodeWords(_)
B85DecodeWords(t) ==
    IF t = <<>> THEN <<>>
    ELSE IF Len(t) = 5
    THEN ToBase([i \in 1 .. 5 |-> B85Index(t[i]) - 1], 85, 256, 4)[1]
    ELSE LET h == 5 * ((Len(t) \div 5) \div 2)
         IN  B85DecodeWords(SubSeq(t, 1, h)) \o B85DecodeWords(SubSeq(t, h + 1, Len(t)))

B85Pad(t) == t \o Fill((5 - (Len(t) % 5)) % 5, 126)
CanB85Decode(t) == B85DecodeOk(B85Pad(t))
b85decode(t) ==
    LET padding == (5 - (Len(t) % 5)) % 5
        out == B85DecodeWords(B85Pad(t))
    IN  SubSeq(out, 1, Len(out) - padding)


(***************************************************************************)
(* OpenSSL.crypto.sign / OpenSSL.crypto.verify, as an ideal deterministic  *)
(* signature: a key is identified by a number, which is also the length of *)
(* the signatures it makes; a signature verifies only against the data and *)
(* the key that made it.                                                   *)
(***************************************************************************)
\* <<h, m>>: a polynomial digest h of the data and the multiplier m that
\* shifts a digest past it
RECURSIVE DigestPair(_)
DigestPair(data) ==
    IF data = <<>> THEN <<0, 1>>
    ELSE IF Len(data) = 1 THEN <<(data[1] + 7) % 251, 31>>
    ELSE LET h == Len(data) \div 2
             l == DigestPair(SubSeq(data, 1, h))
             r == DigestPair(SubSeq(data, h + 1, Len(data)))
         IN  <<(l[1] * r[2] + r[1]) % 251, (l[2] * r[2]) % 251>>

Digest(data, seed) == (seed * DigestPair(data)[2] + DigestPair(data)[1]) % 251

CryptoSign(key, data) == [i \in 1 .. key |-> (Digest(data, key) + i * key) % 256]
CryptoVerify(cert, sig, data) == sig = CryptoSign(cert, data)

Keys == 1 .. MaxSigLen

(***************************************************************************)
(* Token values handed to TokenData.                                       *)
(***************************************************************************)
\* '0', '1', e-acute (2 bytes in UTF-8), euro sign (3 bytes in UTF-8)
Chars == {48, 49, 233, 8364}
Repeat(c, n) == [i \in 1 .. n |-> c]
ShortTexts == UNION {[1 .. n -> Chars] : n \in 0 .. MaxTextLen}
LongTexts == {Repeat(c, n) : c \in {49, 233}, n \in {128, 255, 256}}
Texts == ShortTexts \cup LongTexts \cup {PyStr(x) : x \in PyTestResults}

(***************************************************************************)
(* TokenData (Generate_QR_Token.py) and QR_data (Verify_QR_Token.py).      *)
(***************************************************************************)
\* user_token_length = len(self.user_token).to_bytes(1, 'big')
\* user_token_bytes = bytearray(self.user_token, 'utf-8')
user_token_length(text) == Len(text)
getByteArray(text) == to_bytes(user_token_length(text), 1) \o UTF8(text)

\* self.cert_bytes + cert_sign_len + cert_sign_bytes
SignedCertificateByteArray(bytes, sign) == bytes \o to_bytes(Len(sign), 2) \o sign

\* QR_data.__init__ after b85decode: the four reads, by position
qr_token_length(raw) == from_bytes(Slice(raw, 0, 1))
qr_parse_user_token(raw) == Slice(raw, 1, 1 + qr_token_length(raw))
qr_parse_verify_bytes(raw) == Slice(raw, 0, 1 + qr_token_length(raw))
qr_sign_length(raw) ==
    from_bytes(Slice(raw, 1 + qr_token_length(raw), 1 + qr_token_length(raw) + 2))
qr_parse_sign_bytes(raw) ==
    Slice(raw, 1 + qr_token_length(raw) + 2,
               1 + qr_token_length(raw) + 2 + qr_sign_length(raw))

SerInit ==
    /\ spc = "start"
    /\ user_token = <<>>
    /\ cert_bytes = <<>>
    /\ pkey = 0
    /\ cert_sign = <<>>
    /\ signed_user_cert = <<>>
    /\ tampered = FALSE
    /\ qr_data_base64 = <<>>
    /\ raw_data = <<>>
    /\ qr_user_token = <<>>
    /\ raw_verify_bytes = <<>>
    /\ token_sign_bytes = <<>>
    /\ verify_cert = 0
    /\ verified = "none"

Init == MechInit /\ SerInit

\* TokenData.__init__(user_token): store the text, then getByteArray().
\* to_bytes(1, 'big') raises OverflowError for a length above 255.
TokenData_init(text) ==
    /\ spc = "start"
    /\ user_token' = text
    /\ IF CanToBytes(user_token_length(text), 1)
       THEN /\ cert_bytes' = getByteArray(text)
            /\ spc' = "token"
       ELSE /\ spc' = "OverflowError"
            /\ UNCHANGED cert_bytes
    /\ UNCHANGED <<pkey, cert_sign, signed_user_cert, tampered, qr_data_base64,
                   raw_data, qr_user_token, raw_verify_bytes, token_sign_bytes,
                   verify_cert, verified>>
    /\ UNCHANGED mvars

\* TokenData.getSignedCertificateByteArray(pkey)
getSignedCertificateByteArray(key) ==
    /\ spc = "token"
    /\ pkey' = key
    /\ cert_sign' = CryptoSign(key, cert_bytes)
    /\ IF CanToBytes(Len(cert_sign'), 2)
       THEN /\ signed_user_cert' = SignedCertificateByteArray(cert_bytes, cert_sign')
            /\ spc' = "signed"
       ELSE /\ spc' = "OverflowError"
            /\ UNCHANGED signed_user_cert
    /\ UNCHANGED <<user_token, cert_bytes, tampered, qr_data_base64, raw_data,
                   qr_user_token, raw_verify_bytes, token_sign_bytes, verify_cert,
                   verified>>
    /\ UNCHANGED mvars

\* qr.add_data(base64.b85encode(signed_user_cert))
qr_add_data ==
    /\ spc = "signed"
    /\ qr_data_base64' = b85encode(signed_user_cert)
    /\ spc' = "qr"
    /\ UNCHANGED <<user_token, cert_bytes, pkey, cert_sign, signed_user_cert,
                   tampered, raw_data, qr_user_token, raw_verify_bytes,
                   token_sign_bytes, verify_cert, verified>>
    /\ UNCHANGED mvars

\* The QR code the verifier scans need not be the one that was issued: its
\* payload may have lost its last n bytes, ...
FlipBit(b) == IF b % 2 = 0 THEN b + 1 ELSE b - 1

scan_truncated(n) ==
    /\ spc = "qr"
    /\ ~tampered
    /\ n <= Len(signed_user_cert)
    /\ tampered' = TRUE
    /\ qr_data_base64' =
          b85encode(SubSeq(signed_user_cert, 1, Len(signed_user_cert) - n))
    /\ UNCHANGED <<spc, user_token, cert_bytes, pkey, cert_sign, signed_user_cert,
                   raw_data, qr_user_token, raw_verify_bytes, token_sign_bytes,
                   verify_cert, verified>>
    /\ UNCHANGED mvars

\* ... gained a trailing byte, ...
scan_extended(b) ==
    /\ spc = "qr"
    /\ ~tampered
    /\ tampered' = TRUE
    /\ qr_data_base64' = b85encode(Append(signed_user_cert, b))
    /\ UNCHANGED <<spc, user_token, cert_bytes, pkey, cert_sign, signed_user_cert,
                   raw_data, qr_user_token, raw_verify_bytes, token_sign_bytes,
                   verify_cert, verified>>
    /\ UNCHANGED mvars

\* ... or have one byte changed: one of the first MaxTamper bytes (the record)
\* or of the last MaxTamper bytes (the signature).
TamperPos(i) == IF i <= MaxTamper THEN i ELSE Len(signed_user_cert) - (i - MaxTamper) + 1

scan_flipped(i) ==
    /\ spc = "qr"
    /\ ~tampered
    /\ TamperPos(i) \in 1 .. Len(signed_user_cert)
    /\ tampered' = TRUE
    /\ qr_data_base64' =
          b85encode([signed_user_cert EXCEPT
                        ![TamperPos(i)] = FlipBit(signed_user_cert[TamperPos(i)])])
    /\ UNCHANGED <<spc, user_token, cert_bytes, pkey, cert_sign, signed_user_cert,
                   raw_data, qr_user_token, raw_verify_bytes, token_sign_bytes,
                   verify_cert, verified>>
    /\ UNCHANGED mvars

\* QR_data.__init__(b64_data)
QR_data_init ==
    /\ spc = "qr"
    /\ IF CanB85Decode(qr_data_base64)
       THEN /\ raw_data' = b85decode(qr_data_base64)
            /\ qr_user_token' = qr_parse_user_token(raw_data')
            /\ raw_verify_bytes' = qr_parse_verify_bytes(raw_data')
            /\ token_sign_bytes' = qr_parse_sign_bytes(raw_data')
            /\ spc' = "parsed"
       ELSE /\ spc' = "ValueError"
            /\ UNCHANGED <<raw_data, qr_user_token, raw_verify_bytes, token_sign_bytes>>
    /\ UNCHANGED <<user_token, cert_bytes, pkey, cert_sign, signed_user_cert,
                   tampered, qr_data_base64, verify_cert, verified>>
    /\ UNCHANGED mvars

\* QR_data.verify_signature(cert): OpenSSL.crypto.verify returns None for a
\* good signature and raises OpenSSL.crypto.Error for a bad one.
verify_signature(cert) ==
    /\ spc = "parsed"
    /\ verify_cert' = cert
    /\ verified' = IF CryptoVerify(cert, token_sign_bytes, raw_verify_bytes)
                   THEN "True" ELSE "Error"
    /\ spc' = "verified"
    /\ UNCHANGED <<user_token, cert_bytes, pkey, cert_sign, signed_user_cert,
                   tampered, qr_data_base64, raw_data, qr_user_token,
                   raw_verify_bytes, token_sign_bytes>>
    /\ UNCHANGED mvars

Next ==
    \/ \E text \in Texts : TokenData_init(text)
    \/ \E key \in Keys : getSignedCertificateByteArray(key)
    \/ qr_add_data
    \/ \E n \in 1 .. MaxTamper : scan_truncated(n)
    \/ \E b \in {0, 255} : scan_extended(b)
    \/ \E i \in 1 .. 2 * MaxTamper : scan_flipped(i)
    \/ QR_data_init
    \/ \E cert \in Keys : verify_signature(cert)

Spec == Init /\ [][Next]_vars

MechNext ==
    \/ \E tr \in PyTestResults, E \in Exps : generate_signed_token(tr, E)
    \/ \E n \in 1 .. MaxUsers, E \in Exps, p \in Priors, kk \in Ks :
          simulate_DPHT(n, E, p, kk)
    \/ simulate_next_user
    \/ output_token_coin0
    \/ output_token_keep
    \/ output_token_coin1
    \/ output_token_return_generate
    \/ output_token_return_simulate
    \/ simulate_estimate

SpecMech == Init /\ [][MechNext]_vars


(***************************************************************************)
(* Properties of the token record and its verification (under Spec).       *)
(***************************************************************************)
Parsed == spc \in {"parsed", "verified"}

\* C1: round trip.  For every text value and signature, parsing the payload
\* the generator built (unaltered on the way) gives back the UTF-8 bytes of
\* the value as user_token and the signature as token_sign_bytes.
C1_RoundTrip ==
    (Parsed /\ ~tampered) =>
        /\ qr_user_token = UTF8(user_token)
        /\ token_sign_bytes = cert_sign

\* C2: overflow boundaries.  Building the record fails with OverflowError
\* exactly when the value's UTF-8 length exceeds 255, attaching the signature
\* fails exactly when the signature is longer than 65535 bytes, and every
\* length prefix written equals the number of bytes that follow it.
C2_OverflowBoundaries ==
    /\ (spc # "start" /\ pkey = 0) =>
          ((spc = "OverflowError") <=> (Len(UTF8(user_token)) > 255))
    /\ (spc \notin {"start", "OverflowError"}) =>
          from_bytes(Slice(cert_bytes, 0, 1)) = Len(cert_bytes) - 1
    /\ (pkey # 0) =>
          /\ (spc = "OverflowError") <=> (Len(cert_sign) > 65535)
          /\ (spc # "OverflowError") =>
                from_bytes(Slice(signed_user_cert, Len(cert_bytes), Len(cert_bytes) + 2))
                   = Len(signed_user_cert) - Len(cert_bytes) - 2

\* the payload is exactly: 1-byte length, that many value bytes, 2-byte
\* length, that many signature bytes
WellFormedPayload(raw) ==
    /\ Len(raw) >= 1
    /\ Len(raw) >= 1 + raw[1] + 2
    /\ Len(raw) = 1 + raw[1] + 2 + from_bytes(SubSeq(raw, raw[1] + 2, raw[1] + 3))

\* C3: parsing rejects malformed input.  QR_data is constructed only from a
\* payload that is neither truncated nor followed by trailing bytes, and the
\* token and signature it holds are as long as their prefixes declare.
C3_MalformedRejected ==
    Parsed =>
        /\ WellFormedPayload(raw_data)
        /\ Len(qr_user_token) = qr_token_length(raw_data)
        /\ Len(token_sign_bytes) = qr_sign_length(raw_data)

\* C4: signing and verification cover the same bytes.  For an unaltered
\* payload the bytes given to verification are the bytes that were signed
\* (the record: length prefix plus value bytes, nothing of the signature
\* block), and the signature given to it is the one that was attached.
C4_SameByteRange ==
    (Parsed /\ ~tampered) =>
        /\ raw_verify_bytes = cert_bytes
        /\ Len(raw_verify_bytes) = 1 + Len(UTF8(user_token))
        /\ token_sign_bytes = CryptoSign(pkey, cert_bytes)

\* C5: verification failure is a return value.  verify_signature returns
\* True when the signature validates over the record bytes and returns False,
\* without raising, when it does not.
C5_VerifyReturnsBoolean ==
    (spc = "verified") =>
        verified = IF CryptoVerify(verify_cert, token_sign_bytes, raw_verify_bytes)
                   THEN "True" ELSE "False"

(***************************************************************************)
(* Properties of the mechanism and the estimator (under SpecMech).         *)
(***************************************************************************)
ValidParams == k >= 2 /\ RLt(ROne, eeps)

\* C6: privacy bound.  For k >= 2 and e^epsilon > 1, for all true classes a, b
\* and every output o the mechanism can produce,
\* P(output_token(a) = o) <= e^epsilon * P(output_token(b) = o); every token
\* output_token returns is such an output.
C6_PrivacyBound ==
    (mpc # "idle" /\ ValidParams) =>
        /\ \A a \in TestResults, b \in TestResults :
              \A o \in Producible(k, eeps) :
                 RLeq(OutputProb(a, o, k, eeps), RMul(eeps, OutputProb(b, o, k, eeps)))
        /\ (mpc = "return") => token.v \in Producible(k, eeps)

C6_Witness ==
    /\ mpc = "return"
    /\ k >= 3
    /\ RLt(ROne, eeps)
    /\ coin0 = 0
    /\ token.v # test_result.v

\* C7 (as stated): when the first coin does not keep the true class, the
\* second draw produces each class of 0 .. k-1 with probability exactly 1/k.
C7_SecondDrawUniformOverK ==
    (ValidParams /\ mpc = "return" /\ coin0 = 0) =>
        /\ prob[2] = Rat(1, k)
        /\ \A c \in 0 .. k - 1 : c \in ChoiceSupport(Coin1P(k))

\* C7 (amended): when the first coin does not keep the true class, the second
\* draw produces class 1 with probability exactly 1/k and class 0 with
\* probability exactly 1 - 1/k, and no other class.
C7_SecondDrawBinary ==
    (ValidParams /\ mpc = "return" /\ coin0 = 0) =>
        /\ token \in {PyInt(0), PyInt(1)}
        /\ prob[2] = IF token.v = 1 THEN Rat(1, k) ELSE Rat(k - 1, k)

C7_Witness ==
    /\ mpc = "return"
    /\ coin0 = 0
    /\ k >= 3
    /\ RLt(ROne, eeps)
    /\ token = PyInt(0)
    /\ prob[2] = Rat(k - 1, k)

\* C8: parameter validation.  For k < 2 or epsilon <= 0 (e^epsilon <= 1)
\* output_token fails and never returns a token.
C8_InvalidParametersRejected ==
    (mpc = "return") => ValidParams

\* C9: the estimator inverts the mechanism.  For k >= 2 and e^epsilon > 1 the
\* mechanism yields a non-zero token with probability max_prob for status 1
\* and min_prob for status 0, and the estimate computed from the expected
\* observed fraction x = p*max_prob + (1-p)*min_prob is the true proportion p.
C9_EstimatorInvertsMechanism ==
    (caller = "simulate" /\ ValidParams) =>
        /\ NonZeroProb(1, k, eeps) = max_prob(k, eeps)
        /\ NonZeroProb(0, k, eeps) = min_prob(k, eeps)
        /\ e_x_of(RAdd(RMul(priorP, NonZeroProb(1, k, eeps)),
                       RMul(RSub(ROne, priorP), NonZeroProb(0, k, eeps))),
                  k, eeps) = priorP

C9_Witness ==
    /\ mpc = "simulated"
    /\ k >= 3
    /\ RLt(ROne, eeps)
    /\ RLt(RZero, priorP)
    /\ RLt(priorP, ROne)
    /\ count_nonzero(tokens) # count_nonzero(antibody_status)

\* C10: the token text depends only on the noisy class.  The text
\* generate_signed_token serialises is the text the second coin gives for the
\* same class, whichever branch produced the token.
C10_TextDependsOnlyOnClass ==
    (mpc = "generated") => user_token_value = PyStr(PyInt(token.v))

====
